---- MODULE Spec2Model ----
(***************************************************************************)
(* Model of shares() in compute_shares.py: the FIFO allocation of monthly  *)
(* repayments against monthly wage arrears, per (id, wave), and the        *)
(* cumulative columns derived from it.                                     *)
(*                                                                         *)
(* Every column of the DataFrame is a float64.  A float is modelled as a   *)
(* record [k, n, d]: k = "num" is the exact rational n/d in lowest terms   *)
(* (d > 0), k = "inf" is the infinity of sign n, k = "nan" is NaN (pandas' *)
(* "absent").  Rounding of finite values is not modelled.                  *)
(***************************************************************************)
EXTENDS Integers, Sequences, FiniteSets

\* ------------------------------------------------------------------ bounds
MaxWage == 1
MaxOwed == 2
MaxRepaid == 3

\* ------------------------------------------------------------------ floats
Abs(x) == IF x < 0 THEN -x ELSE x

Sign(x) == IF x < 0 THEN -1 ELSE IF x > 0 THEN 1 ELSE 0

RECURSIVE GCD(_, _)
GCD(a, b) == IF b = 0 THEN a ELSE GCD(b, a % b)

NaN == [k |-> "nan", n |-> 0, d |-> 1]

Inf(s) == [k |-> "inf", n |-> s, d |-> 1]

\* the rational n/d (d # 0), in lowest terms
Rat(n, d) ==
    LET g == GCD(Abs(n), Abs(d))
    IN  [k |-> "num", n |-> (Sign(d) * n) \div g, d |-> Abs(d) \div g]

Num(n) == [k |-> "num", n |-> n, d |-> 1]

IsNan(a) == a.k = "nan"

\* Series.fillna(0)
Fill0(a) == IF IsNan(a) THEN Num(0) ELSE a

\* float64 addition
FAdd(a, b) ==
    IF IsNan(a) \/ IsNan(b) THEN NaN
    ELSE IF a.k = "inf" /\ b.k = "inf" THEN (IF a.n = b.n THEN a ELSE NaN)
    ELSE IF a.k = "inf" THEN a
    ELSE IF b.k = "inf" THEN b
    ELSE Rat(a.n * b.d + b.n * a.d, a.d * b.d)

FNeg(a) == IF IsNan(a) THEN NaN ELSE [a EXCEPT !.n = -a.n]

\* float64 subtraction
FSub(a, b) == FAdd(a, FNeg(b))

\* float64 (numpy) division: x/0 is +-inf, 0/0 is nan, nothing raises
FDiv(a, b) ==
    IF IsNan(a) \/ IsNan(b) THEN NaN
    ELSE IF b.k = "inf" THEN (IF a.k = "inf" THEN NaN ELSE Num(0))
    ELSE IF a.k = "inf" THEN Inf(IF b.n < 0 THEN -a.n ELSE a.n)
    ELSE IF b.n = 0 THEN (IF a.n = 0 THEN NaN ELSE Inf(Sign(a.n)))
    ELSE Rat(a.n * b.d, a.d * b.n)

\* float64 comparison a > b: False when either side is NaN
FGt(a, b) ==
    IF IsNan(a) \/ IsNan(b) THEN FALSE
    ELSE IF a.k = "inf" THEN a.n = 1 /\ ~(b.k = "inf" /\ b.n = 1)
    ELSE IF b.k = "inf" THEN b.n = -1
    ELSE a.n * b.d > b.n * a.d

\* Series.cumsum(): NaN entries stay NaN and add nothing to the running total
RECURSIVE RunSum(_, _)
RunSum(s, i) == IF i = 0 THEN Num(0) ELSE FAdd(RunSum(s, i - 1), Fill0(s[i]))

Cumsum(s) == [i \in 1..Len(s) |-> IF IsNan(s[i]) THEN NaN ELSE RunSum(s, i)]

\* ------------------------------------------------------------------ panel
\* One (id, wave) of three consecutive months; the same with no row for
\* month 2; two waves of one individual followed by a second individual.
OneWave == {<<1, 1, 1>>, <<1, 1, 2>>, <<1, 1, 3>>}

HoleWave == {<<1, 1, 1>>, <<1, 1, 3>>}

TwoMonths == {<<1, 1, 1>>, <<1, 1, 2>>}

TwoIds == {<<1, 1, 1>>, <<1, 2, 1>>, <<2, 1, 1>>}

Shapes == {OneWave, HoleWave, TwoIds}

Opt(S) == {NaN} \cup {Num(x) : x \in S}

KeyLess(a, b) ==
    \/ a[1] < b[1]
    \/ a[1] = b[1] /\ a[2] < b[2]
    \/ a[1] = b[1] /\ a[2] = b[2] /\ a[3] < b[3]

\* the keys in (id, wave, modate) order, as the input file holds them
RECURSIVE SortKeys(_)
SortKeys(K) ==
    IF K = {} THEN << >>
    ELSE LET m == CHOOSE a \in K : \A b \in K \ {a} : KeyLess(a, b)
         IN  <<m>> \o SortKeys(K \ {m})

\* NewRow with the wage paid taken as the supposed wage
NewRow_WageOnly(key, wage, owed, repaid) ==
    [id |-> key[1], wave |-> key[2], modate |-> key[3],
     wage |-> wage, amount_owed |-> owed, amount_repaid |-> repaid,
     supp_wage |-> wage,
     a2w |-> FDiv(owed, wage),
     r2cw |-> FDiv(repaid, wage),
     cumsum_a2w |-> NaN, r2w |-> NaN, cumsum_r2w |-> NaN,
     shares |-> NaN, cumsum_shares |-> NaN,
     costs |-> NaN, psy_costs |-> NaN]

\* lines 43-61: the index, the NaN output columns, supp_wage, a2w and r2cw
NewRow(key, wage, owed, repaid) ==
    LET sw == FAdd(Fill0(owed), wage)
    IN  [id |-> key[1], wave |-> key[2], modate |-> key[3],
         wage |-> wage, amount_owed |-> owed, amount_repaid |-> repaid,
         supp_wage |-> sw,
         a2w |-> FDiv(owed, sw),
         r2cw |-> FDiv(repaid, sw),
         cumsum_a2w |-> NaN, r2w |-> NaN, cumsum_r2w |-> NaN,
         shares |-> NaN, cumsum_shares |-> NaN,
         costs |-> NaN, psy_costs |-> NaN]

\* the DataFrame read from to_compute_shares.dta: f[key] is the row's
\* <<wage, amount_owed, amount_repaid>>
ReadStata(keys, f) ==
    LET ks == SortKeys(keys)
    IN  [j \in 1..Len(ks) |-> NewRow(ks[j], f[ks[j]][1], f[ks[j]][2], f[ks[j]][3])]

\* ------------------------------------------------------------------ selections
\* positions of the rows of df.loc[(i, w)], in row order
RECURSIVE Upto(_, _)
Upto(S, n) ==
    IF n = 0 THEN << >>
    ELSE IF n \in S THEN Append(Upto(S, n - 1), n) ELSE Upto(S, n - 1)

WaveIdx(d, i, w) == Upto({j \in 1..Len(d) : d[j].id = i /\ d[j].wave = w}, Len(d))

IdIdx(d, i) == Upto({j \in 1..Len(d) : d[j].id = i}, Len(d))

\* df.loc[(i, w, m)] exists
HasRow(d, i, w, m) ==
    \E j \in 1..Len(d) : d[j].id = i /\ d[j].wave = w /\ d[j].modate = m

Loc(d, i, w, m) ==
    d[CHOOSE j \in 1..Len(d) : d[j].id = i /\ d[j].wave = w /\ d[j].modate = m]

\* FirstArrearDate without the dropna: the first modate of the wave
FirstArrearDate_AnyRow(d, i, w) ==
    LET ms == {d[j].modate : j \in {x \in 1..Len(d) : d[x].id = i /\ d[x].wave = w}}
    IN  IF ms = {} THEN NaN ELSE Num(CHOOSE m \in ms : \A o \in ms : m <= o)

\* lines 73-75: the first modate of the wave with amount_owed present, NaN
\* when there is none
FirstArrearDate(d, i, w) ==
    LET ms == {d[j].modate : j \in {x \in 1..Len(d) :
                   d[x].id = i /\ d[x].wave = w /\ ~IsNan(d[x].amount_owed)}}
    IN  IF ms = {} THEN NaN ELSE Num(CHOOSE m \in ms : \A o \in ms : m <= o)

\* lines 83-85: the modates of the wave's rows with amount_repaid present
RECURSIVE RepayDatesFrom(_, _, _)
RepayDatesFrom(d, ix, n) ==
    IF n > Len(ix) THEN << >>
    ELSE (IF IsNan(d[ix[n]].amount_repaid) THEN << >> ELSE <<d[ix[n]].modate>>)
         \o RepayDatesFrom(d, ix, n + 1)

RepayDates(d, i, w) == RepayDatesFrom(d, WaveIdx(d, i, w), 1)

\* df.loc[rows, col] = vals, rows given by their positions ix
RECURSIVE SetCol(_, _, _, _)
SetCol(d, ix, col, vals) ==
    IF ix = << >> THEN d
    ELSE SetCol([d EXCEPT ![Head(ix)] = [@ EXCEPT ![col] = Head(vals)]],
                Tail(ix), col, Tail(vals))

Col(d, ix, col) == [n \in 1..Len(ix) |-> d[ix[n]][col]]

\* the ids and the waves of an id, in order of appearance (rows are sorted)
Ids(d) == {d[j].id : j \in 1..Len(d)}

Waves(d, i) == {d[j].wave : j \in {x \in 1..Len(d) : d[x].id = i}}

Min(S) == CHOOSE m \in S : \A o \in S : m <= o

\* ------------------------------------------------------------------ allocator
\* lines 78-80: the ledger at the first arrear month
Seed(d, i, w, m) ==
    [fa_date |-> m,
     fa |-> Loc(d, i, w, m.n).amount_owed,
     fa_wage |-> Loc(d, i, w, m.n).supp_wage]

\* Overshoots with >= for >
Overshoots_Geq(rest, a) == FGt(rest, a) \/ (~IsNan(rest) /\ rest = a)

\* line 95: the loop condition
Overshoots(rest, a) == FGt(rest, a)

\* Credit without line 100: the repayment is not reduced by the arrear
Credit_KeepRest(L) ==
    [L EXCEPT !.share_repaid = FAdd(L.share_repaid, FDiv(L.fa, L.fa_wage)),
              !.fa_date = FAdd(L.fa_date, Num(1))]

\* lines 97-103: credit the whole current arrear and step to the next month
Credit(L) ==
    [L EXCEPT !.share_repaid = FAdd(L.share_repaid, FDiv(L.fa, L.fa_wage)),
              !.rest_rep = FSub(L.rest_rep, L.fa),
              !.fa_date = FAdd(L.fa_date, Num(1))]

\* lines 105-106: read the row of the new fa_date (a KeyError without the row)
Reload(d, i, w, L) ==
    [L EXCEPT !.fa = Loc(d, i, w, L.fa_date.n).amount_owed,
              !.fa_wage = Loc(d, i, w, L.fa_date.n).supp_wage]

\* lines 107-110: credit the rest against the current arrear month
Settle(L) ==
    [L EXCEPT !.share_repaid = FAdd(L.share_repaid, FDiv(L.rest_rep, L.fa_wage)),
              !.fa = FSub(L.fa, L.rest_rep)]

\* lines 95-110 for one repayment row, from the locals L at line 94
RECURSIVE RunRow(_, _, _, _)
RunRow(d, i, w, L) ==
    IF Overshoots(L.rest_rep, L.fa)
    THEN IF HasRow(d, i, w, Credit(L).fa_date.n)
         THEN RunRow(d, i, w, Reload(d, i, w, Credit(L)))
         ELSE [raised |-> TRUE, L |-> Credit(L)]
    ELSE [raised |-> FALSE, L |-> Settle(L)]

\* lines 83-110 over the repayment months ds; r2w collects the rows' values
RECURSIVE RunRows(_, _, _, _, _, _)
RunRows(d, i, w, L, ds, r2w) ==
    IF ds = << >> THEN [raised |-> FALSE, L |-> L, r2w |-> r2w]
    ELSE LET r == RunRow(d, i, w,
                     [L EXCEPT !.rest_rep = Loc(d, i, w, Head(ds)).amount_repaid,
                               !.share_repaid = Num(0)])
         IN  IF r.raised THEN [raised |-> TRUE, L |-> r.L, r2w |-> r2w]
             ELSE RunRows(d, i, w, r.L, Tail(ds), Append(r2w, r.L.share_repaid))

\* lines 73-110 for a wave with arrears
RunWave(d, i, w) ==
    LET m == FirstArrearDate(d, i, w)
        s == Seed(d, i, w, m)
    IN  RunRows(d, i, w,
                [fa_date |-> s.fa_date, fa |-> s.fa, fa_wage |-> s.fa_wage,
                 rest_rep |-> NaN, share_repaid |-> NaN],
                RepayDates(d, i, w), << >>)

\* ------------------------------------------------------------------ state
VARIABLES df, pc, id, wave, fa_date, fa, fa_wage, dates, date,
          rest_rep, share_repaid, consumed, out

vars == <<df, pc, id, wave, fa_date, fa, fa_wage, dates, date,
          rest_rep, share_repaid, consumed, out>>

\* the locals of the loop, as one record
Locals ==
    [fa_date |-> fa_date, fa |-> fa, fa_wage |-> fa_wage,
     rest_rep |-> rest_rep, share_repaid |-> share_repaid]

\* lines 39-61, and the loops at their first id and wave; the locals are
\* not bound yet (NaN), out is the file not written yet
InitWith(keys, wages, oweds, repaids) ==
    /\ \E f \in [keys -> wages \X oweds \X repaids] : df = ReadStata(keys, f)
    /\ pc = "wave"
    /\ id = Min(Ids(df))
    /\ wave = Min(Waves(df, id))
    /\ fa_date = NaN /\ fa = NaN /\ fa_wage = NaN
    /\ dates = << >> /\ date = 0
    /\ rest_rep = NaN /\ share_repaid = NaN
    /\ consumed = Num(0)
    /\ out = << >>

\* small amounts over every shape of panel, the same wage in every month
InitSmall ==
    \E keys \in Shapes : \E w \in 0..MaxWage :
        InitWith(keys, {Num(w)}, Opt(0..MaxOwed), Opt(0..MaxRepaid))

\* one wave whose wage differs from month to month and may be absent
InitWages ==
    InitWith(OneWave, Opt({0, 1}), Opt({0, 1}), Opt({1, 2}))

\* the amounts of the two documented scenarios, one wave of two or three months
InitScenario ==
    \/ \E keys \in {TwoMonths, OneWave} :
           InitWith(keys, {Num(200)}, Opt({50, 100}), Opt({130}))
    \/ InitWith(OneWave, {Num(50), Num(100)}, Opt({50}), Opt({20, 30}))

Init == InitScenario \/ InitWages \/ InitSmall

\* lines 69-80: cumsum_a2w of the wave, then the first arrear month; a wave
\* without arrears skips the repayment loop
StartWave ==
    /\ pc = "wave"
    /\ LET ix == WaveIdx(df, id, wave)
           m == FirstArrearDate(df, id, wave)
       IN  /\ df' = SetCol(df, ix, "cumsum_a2w", Cumsum(Col(df, ix, "a2w")))
           /\ consumed' = Num(0)
           /\ fa_date' = m
           /\ IF IsNan(m)
              THEN /\ pc' = "wave_end"
                   /\ UNCHANGED <<fa, fa_wage, dates>>
              ELSE /\ pc' = "row"
                   /\ fa' = Seed(df, id, wave, m).fa
                   /\ fa_wage' = Seed(df, id, wave, m).fa_wage
                   /\ dates' = RepayDates(df, id, wave)
    /\ UNCHANGED <<id, wave, date, rest_rep, share_repaid, out>>

\* lines 83-94: the next repayment month, or the end of the loop
NextRow ==
    /\ pc = "row"
    /\ IF dates = << >>
       THEN /\ pc' = "wave_end"
            /\ UNCHANGED <<dates, date, rest_rep, share_repaid>>
       ELSE /\ pc' = "while"
            /\ date' = Head(dates)
            /\ dates' = Tail(dates)
            /\ rest_rep' = Loc(df, id, wave, Head(dates)).amount_repaid
            /\ share_repaid' = Num(0)
    /\ UNCHANGED <<df, id, wave, fa_date, fa, fa_wage, consumed, out>>

\* lines 95-106, the row of fa_date + 1 exists
LoopBody ==
    /\ pc = "while"
    /\ Overshoots(rest_rep, fa)
    /\ HasRow(df, id, wave, Credit(Locals).fa_date.n)
    /\ LET L == Reload(df, id, wave, Credit(Locals))
       IN  /\ share_repaid' = L.share_repaid
           /\ rest_rep' = L.rest_rep
           /\ fa_date' = L.fa_date
           /\ fa' = L.fa
           /\ fa_wage' = L.fa_wage
    /\ consumed' = FAdd(consumed, fa)
    /\ UNCHANGED <<df, pc, id, wave, dates, date, out>>

\* lines 95-105, the wave has no row of fa_date + 1: df.loc raises KeyError
\* and the run ends without writing the file
RaiseKeyError ==
    /\ pc = "while"
    /\ Overshoots(rest_rep, fa)
    /\ ~HasRow(df, id, wave, Credit(Locals).fa_date.n)
    /\ LET L == Credit(Locals)
       IN  /\ share_repaid' = L.share_repaid
           /\ rest_rep' = L.rest_rep
           /\ fa_date' = L.fa_date
    /\ consumed' = FAdd(consumed, fa)
    /\ pc' = "raised"
    /\ UNCHANGED <<df, id, wave, fa, fa_wage, dates, date, out>>

\* lines 107-110: the loop is left, r2w of the row is written
EndRow ==
    /\ pc = "while"
    /\ ~Overshoots(rest_rep, fa)
    /\ LET L == Settle(Locals)
       IN  /\ share_repaid' = L.share_repaid
           /\ fa' = L.fa
           /\ df' = SetCol(df, <<CHOOSE j \in 1..Len(df) :
                                    /\ df[j].id = id /\ df[j].wave = wave
                                    /\ df[j].modate = date>>,
                           "r2w", <<L.share_repaid>>)
    /\ consumed' = FAdd(consumed, rest_rep)
    /\ pc' = "row"
    /\ UNCHANGED <<id, wave, fa_date, fa_wage, dates, date, rest_rep, out>>

\* lines 112-119
WaveColumns(d, i, w) ==
    LET ix == WaveIdx(d, i, w)
        d1 == SetCol(d, ix, "cumsum_r2w", Cumsum(Col(d, ix, "r2w")))
        sh == [n \in 1..Len(ix) |->
                  FSub(Fill0(d1[ix[n]].a2w), Fill0(d1[ix[n]].r2w))]
        d2 == SetCol(d1, ix, "shares", sh)
    IN  SetCol(d2, ix, "cumsum_shares", Cumsum(Col(d2, ix, "shares")))

\* IdColumns with the running sum taken wave by wave
RECURSIVE PerWaveCumsum(_, _, _)
PerWaveCumsum(d, i, ws) ==
    IF ws = {} THEN d
    ELSE LET w == Min(ws)
             ix == WaveIdx(d, i, w)
         IN  PerWaveCumsum(SetCol(d, ix, "psy_costs", Cumsum(Col(d, ix, "costs"))),
                           i, ws \ {w})

IdColumns_PerWave(d, i) ==
    LET ix == IdIdx(d, i)
        cs == [n \in 1..Len(ix) |->
                  FSub(Fill0(d[ix[n]].r2w), Fill0(d[ix[n]].r2cw))]
    IN  PerWaveCumsum(SetCol(d, ix, "costs", cs), i, Waves(d, i))

\* lines 123-127
IdColumns(d, i) ==
    LET ix == IdIdx(d, i)
        cs == [n \in 1..Len(ix) |->
                  FSub(Fill0(d[ix[n]].r2w), Fill0(d[ix[n]].r2cw))]
        d1 == SetCol(d, ix, "costs", cs)
    IN  SetCol(d1, ix, "psy_costs", Cumsum(Col(d1, ix, "costs")))

\* lines 112-119, then line 69: the next wave of the individual, if any
EndWave ==
    /\ pc = "wave_end"
    /\ df' = WaveColumns(df, id, wave)
    /\ LET later == {w \in Waves(df, id) : w > wave}
       IN  IF later = {}
           THEN pc' = "costs" /\ wave' = wave
           ELSE pc' = "wave" /\ wave' = Min(later)
    /\ UNCHANGED <<id, fa_date, fa, fa_wage, dates, date,
                   rest_rep, share_repaid, consumed, out>>

\* lines 123-127, then line 67: the next individual, if any
EndId ==
    /\ pc = "costs"
    /\ df' = IdColumns(df, id)
    /\ LET later == {i \in Ids(df) : i > id}
       IN  IF later = {}
           THEN pc' = "save" /\ UNCHANGED <<id, wave>>
           ELSE /\ pc' = "wave"
                /\ id' = Min(later)
                /\ wave' = Min(Waves(df, Min(later)))
    /\ UNCHANGED <<fa_date, fa, fa_wage, dates, date,
                   rest_rep, share_repaid, consumed, out>>

OutColumns ==
    {"cumsum_shares", "psy_costs", "cumsum_a2w", "cumsum_r2w",
     "a2w", "r2w", "r2cw", "costs", "shares"}

\* lines 133-143: the nine columns are written to computed_shares.dta
Save ==
    /\ pc = "save"
    /\ out' = [j \in 1..Len(df) |-> [c \in OutColumns |-> df[j][c]]]
    /\ pc' = "done"
    /\ UNCHANGED <<df, id, wave, fa_date, fa, fa_wage, dates, date,
                   rest_rep, share_repaid, consumed>>

Next ==
    \/ StartWave
    \/ NextRow
    \/ LoopBody
    \/ RaiseKeyError
    \/ EndRow
    \/ EndWave
    \/ EndId
    \/ Save

Spec == Init /\ [][Next]_vars

\* ------------------------------------------------------------------ claims
\* the accrual rows of a wave (positions), its repayment rows, and the sum
\* of amount_owed over a set of positions
AccrualRows(d, i, w) ==
    {j \in 1..Len(d) : d[j].id = i /\ d[j].wave = w /\ ~IsNan(d[j].amount_owed)}

RepayRows(d, i, w) ==
    {j \in 1..Len(d) : d[j].id = i /\ d[j].wave = w /\ ~IsNan(d[j].amount_repaid)}

RECURSIVE SumOwed(_, _)
SumOwed(d, S) ==
    IF S = {} THEN Num(0)
    ELSE LET j == CHOOSE x \in S : TRUE
         IN  FAdd(d[j].amount_owed, SumOwed(d, S \ {j}))

TotalOwed == SumOwed(df, AccrualRows(df, id, wave))

\* amount_owed of the accrual rows after the cursor month
LaterOwed ==
    SumOwed(df, {j \in AccrualRows(df, id, wave) : FGt(Num(df[j].modate), fa_date)})

InPass == pc \in {"row", "while", "wave_end"} /\ AccrualRows(df, id, wave) # {}

\* C1 (conservation): after any prefix of a wave's repayment rows, the amount
\* consumed from arrears (the amounts behind the r2w credits) does not exceed
\* the sum of amount_owed over the wave's accrual rows.
C1_Conservation ==
    pc \in {"row", "wave_end"} => ~FGt(consumed, TotalOwed)

\* C2 (ledger balance): during a wave's allocation pass fa is a number and
\* not negative, and after the last repayment row fa plus the untouched
\* amount_owed of the later accrual months is total accrued minus consumed.
C2_LedgerBalance ==
    /\ InPass => fa.k = "num" /\ fa.n >= 0
    /\ (pc = "wave_end" /\ AccrualRows(df, id, wave) # {})
           => FAdd(fa, LaterOwed) = FSub(TotalOwed, consumed)

\* the wave has exactly the accrual rows a, b (a before b) and the single
\* repayment row r of size o1 + x, 0 < x < o2
TwoArrearsOneRepayment(a, b, r) ==
    /\ AccrualRows(df, id, wave) = {a, b}
    /\ df[a].modate < df[b].modate
    /\ RepayRows(df, id, wave) = {r}
    /\ FGt(df[r].amount_repaid, df[a].amount_owed)
    /\ FGt(FAdd(df[a].amount_owed, df[b].amount_owed), df[r].amount_repaid)

\* C3 (FIFO order): arrears o1, o2 in months m1 < m2 and one repayment of
\* o1 + x, 0 < x < o2, give r2w = o1/supp_wage(m1) + x/supp_wage(m2) and
\* leave o2 - x as the remaining amount of month m2.
C3_FifoOrder ==
    \A a, b, r \in 1..Len(df) :
        (TwoArrearsOneRepayment(a, b, r) /\ pc = "wave_end") =>
            LET x == FSub(df[r].amount_repaid, df[a].amount_owed)
            IN  /\ df[r].r2w = FAdd(FDiv(df[a].amount_owed, df[a].supp_wage),
                                    FDiv(x, df[b].supp_wage))
                /\ fa_date = Num(df[b].modate)
                /\ fa = FSub(df[b].amount_owed, x)

\* the documented scenario: month 1 owes 100, month 2 owes 50 and repays 130,
\* the wage column is 200 in both months
Scenario130 ==
    /\ Len(df) = 2
    /\ df[1].wage = Num(200) /\ df[2].wage = Num(200)
    /\ df[1].amount_owed = Num(100) /\ df[2].amount_owed = Num(50)
    /\ IsNan(df[1].amount_repaid) /\ df[2].amount_repaid = Num(130)

\* C4 as stated: the scenario yields r2w(month 2) = 100/200 + 30/200 = 0.65
\* and leaves 20 of month 2.
C4_ScenarioAsStated ==
    (Scenario130 /\ pc = "wave_end") =>
        /\ df[2].r2w = Rat(65, 100)
        /\ fa_date = Num(2) /\ fa = Num(20)

\* C4 (amended): with wage 200 the supposed wages are 300 and 250, so the
\* scenario yields r2w(month 2) = 100/300 + 30/250 = 34/75 and leaves 20 of
\* month 2.
C4_Scenario ==
    (Scenario130 /\ pc = "wave_end") =>
        /\ df[2].r2w = Rat(34, 75)
        /\ df[2].r2w = FAdd(FDiv(Num(100), Num(300)), FDiv(Num(30), Num(250)))
        /\ fa_date = Num(2) /\ fa = Num(20)

C4_Witness == Scenario130 /\ pc = "done" /\ out[2].r2w = Rat(34, 75)

\* sum of a column of r2w values, absent (NaN) values counting as 0
Total(s) == RunSum(s, Len(s))

WaveRows(d, i, w) == {j \in 1..Len(d) : d[j].id = i /\ d[j].wave = w}

\* the wave's single repayment replaced by one repayment per accrual row, of
\* that row's amount_owed, in month order, at the rows K
SplitPanel(K) ==
    LET acc == Upto(AccrualRows(df, id, wave), Len(df))
    IN  [j \in 1..Len(df) |->
            IF j \notin WaveRows(df, id, wave) THEN df[j]
            ELSE IF j \in K
                 THEN [df[j] EXCEPT !.amount_repaid =
                          df[acc[Cardinality({x \in K : x <= j})]].amount_owed]
                 ELSE [df[j] EXCEPT !.amount_repaid = NaN]]

\* the wave has k >= 2 accrual rows and one repayment row, of their sum
OneRepaymentOfAll ==
    /\ Cardinality(AccrualRows(df, id, wave)) >= 2
    /\ \E r \in 1..Len(df) :
           /\ RepayRows(df, id, wave) = {r}
           /\ df[r].amount_repaid = SumOwed(df, AccrualRows(df, id, wave))

SplitAgrees(K) ==
    LET B == RunWave(SplitPanel(K), id, wave)
    IN  /\ ~B.raised
        /\ Total(B.r2w) = Total(Col(df, WaveIdx(df, id, wave), "r2w"))
        /\ B.L.fa_date = fa_date /\ B.L.fa = fa /\ B.L.fa_wage = fa_wage

Splits ==
    {K \in SUBSET WaveRows(df, id, wave) :
        Cardinality(K) = Cardinality(AccrualRows(df, id, wave))}

WagesDefined ==
    /\ \A j \in WaveRows(df, id, wave) : ~IsNan(df[j].wage)
    /\ \A a \in AccrualRows(df, id, wave) : df[a].supp_wage # Num(0)

Increment(j) == FSub(Fill0(df[j].r2w), Fill0(df[j].r2cw))

\* the sum of the increments of the rows of df[j].id up to row j, absent
\* increments counting as 0
RECURSIVE PsySum(_, _)
PsySum(j, x) ==
    IF x = 0 THEN Num(0)
    ELSE FAdd(PsySum(j, x - 1),
              IF df[x].id = df[j].id THEN Fill0(Increment(x)) ELSE Num(0))

IdDone(i) == i < id \/ pc \in {"save", "done"}

\* C6 (cross-wave accumulation): psy_costs of a row is the running sum of
\* (r2w or 0) - (r2cw or 0) over the rows of its individual up to that row,
\* across the wave boundary and from 0 for each individual (a row whose own
\* increment is undefined has an absent psy_costs).
C6_CrossWaveAccumulation ==
    \A j \in 1..Len(df) :
        IdDone(df[j].id) =>
            df[j].psy_costs =
                IF IsNan(Increment(j)) THEN NaN ELSE PsySum(j, j)

C6_Witness ==
    /\ pc = "done" /\ Len(df) = 3
    /\ df[1].id = 1 /\ df[2].id = 1 /\ df[1].wave # df[2].wave /\ df[3].id = 2
    /\ out[1].psy_costs.k = "num" /\ out[1].psy_costs.n # 0
    /\ out[2].costs.k = "num" /\ out[2].costs.n # 0
    /\ out[2].psy_costs = FAdd(out[1].costs, out[2].costs)
    /\ out[3].costs.k = "num" /\ out[3].costs.n # 0
    /\ out[3].psy_costs = out[3].costs

NoArrearWave(i, w) == AccrualRows(df, i, w) = {} /\ RepayRows(df, i, w) # {}

\* C7 (no-arrear case): in a wave with repayment rows and no accrual row
\* every r2w stays absent, nothing is consumed, and the run goes on to the
\* next wave without raising.
C7_NoArrearCase ==
    /\ \A j \in 1..Len(df) :
           NoArrearWave(df[j].id, df[j].wave) => IsNan(df[j].r2w)
    /\ NoArrearWave(id, wave) =>
           /\ pc \notin {"row", "while", "raised"}
           /\ pc = "wave_end" => consumed = Num(0)

C7_Witness ==
    /\ Len(df) = 3 /\ NoArrearWave(1, 1)
    /\ id = 1 /\ wave = 2 /\ pc = "wave_end" /\ ~IsNan(df[2].r2w)
    /\ IsNan(df[1].r2w) /\ IsNan(df[1].cumsum_r2w) /\ ~IsNan(df[1].r2cw)

\* the last month of the wave with amount_owed present
LastArrear ==
    LET ms == {df[j].modate : j \in AccrualRows(df, id, wave)}
    IN  CHOOSE m \in ms : \A o \in ms : o <= m

OnLedger == pc \in {"row", "while", "wave_end", "raised"} /\ AccrualRows(df, id, wave) # {}

\* C8 (ledger exhaustion is absorbed): when the repayments of a wave exceed
\* its arrears the run does not raise, the cursor stays within the wave's
\* arrear months with its state unchanged by the excess, and the excess is
\* credited no share.
C8_ExhaustionAbsorbed ==
    OnLedger =>
        /\ fa_date.n <= LastArrear
        /\ pc \in {"row", "wave_end"} => ~FGt(consumed, TotalOwed)

\* C9 (advance skips gaps): while an accrual row lies at or after the cursor,
\* the cursor rests on an accrual row (months without one are skipped) and
\* the advance does not raise for a month that has no row.
C9_AdvanceSkipsGaps ==
    (OnLedger /\ fa_date.n <= LastArrear) =>
        /\ pc # "raised"
        /\ \E a \in AccrualRows(df, id, wave) : fa_date = Num(df[a].modate)

\* the repayment (or what is left of it) is not greater than the remaining
\* amount of the current arrear month
Covered == pc = "while" /\ fa.k = "num" /\ ~FGt(rest_rep, fa)

\* the documented scenario: month 1 owes 50, months 2 and 3 repay 20 and 30
Scenario50 ==
    /\ Len(df) = 3
    /\ df[1].amount_owed = Num(50)
    /\ IsNan(df[2].amount_owed) /\ IsNan(df[3].amount_owed)
    /\ IsNan(df[1].amount_repaid)
    /\ df[2].amount_repaid = Num(20) /\ df[3].amount_repaid = Num(30)

\* C10 (partial carry-forward): a repayment R <= fa (R = fa and R = 0
\* included) credits R/fa_wage, leaves fa - R and does not move the cursor,
\* and the next repayment row starts from that month with fa - R; an accrual
\* of 50 repaid by 20 then 30 leaves 30, then 0.
C10_PartialCarryForward ==
    /\ [][Covered =>
            /\ pc' = "row"
            /\ fa_date' = fa_date /\ fa_wage' = fa_wage
            /\ fa' = FSub(fa, rest_rep)
            /\ Loc(df', id, wave, date).r2w
                   = FAdd(share_repaid, FDiv(rest_rep, fa_wage))]_vars
    /\ [][(pc = "row" /\ dates # << >>) =>
            /\ pc' = "while"
            /\ fa_date' = fa_date /\ fa_wage' = fa_wage /\ fa' = fa]_vars
    /\ [](Scenario50 /\ pc = "row" =>
            /\ fa_date = Num(1)
            /\ date = 0 => fa = Num(50)
            /\ date = 2 => fa = Num(30)
            /\ date = 3 => fa = Num(0))

C10_Witness ==
    /\ Scenario50 /\ pc = "wave_end"
    /\ fa_date = Num(1) /\ fa = Num(0)
    /\ df[2].r2w = FDiv(Num(20), df[1].supp_wage)
    /\ df[3].r2w = FDiv(Num(30), df[1].supp_wage)

\* the run has ended: no step of shares() is left to take (every other
\* value of pc is the guard of a step)
Stopped == pc \notin {"wave", "row", "while", "wave_end", "costs", "save"}

\* C11 (run to completion): the pass over all individuals, waves and
\* repayment rows never stops mid-panel: when no step is left the file has
\* been written with the outputs of every row.
C11_RunsToCompletion ==
    Stopped => (pc = "done" /\ Len(out) = Len(df))

\* the panel with the rows of one (individual, wave) only
OnlyWave(d, i, w) == SelectSeq(d, LAMBDA r : r.id = i /\ r.wave = w)

\* the r2w column a run over OnlyWave(d, i, w) leaves: the credited shares on
\* the repayment rows reached, NaN everywhere else
AloneR2w(d, i, w) ==
    LET a == OnlyWave(d, i, w)
        ds == RepayDates(a, i, w)
        done == IF IsNan(FirstArrearDate(a, i, w)) THEN << >>
                ELSE RunWave(a, i, w).r2w
    IN  [n \in 1..Len(a) |->
            IF \E k \in 1..Len(done) : ds[k] = a[n].modate
            THEN done[CHOOSE k \in 1..Len(done) : ds[k] = a[n].modate]
            ELSE NaN]

R2wOf(i, w) == Col(df, WaveIdx(df, i, w), "r2w")

\* a wave the run has gone through has the r2w of a run over that wave alone,
\* and the ledger it ends with is the one of that run
ReseededEveryWave ==
    /\ \A i \in Ids(df) : \A w \in Waves(df, i) :
           (pc \in {"save", "done"} \/ i < id \/ (i = id /\ w < wave)
               \/ (i = id /\ w = wave /\ pc \in {"wave_end", "costs"}))
           => R2wOf(i, w) = AloneR2w(df, i, w)
    /\ (pc = "wave_end" /\ ~IsNan(fa_date)) =>
           LET R == RunWave(OnlyWave(df, id, wave), id, wave)
           IN  R.L.fa_date = fa_date /\ R.L.fa = fa /\ R.L.fa_wage = fa_wage

\* C12 (ledger isolation): the r2w values of every wave are those of a run
\* over that wave alone, whatever the other waves and individuals hold: when
\* the run has ended, each wave's r2w column equals the column the wave
\* gets when it is the whole panel.
C12_LedgerIsolation ==
    Stopped => \A i \in Ids(df) : \A w \in Waves(df, i) :
                   R2wOf(i, w) = AloneR2w(df, i, w)

\* the amount the next step of the loop credits against the month fa_date:
\* the whole arrear fa at line 97, or what is left of the repayment at line 107
NextCredit == IF Overshoots(rest_rep, fa) THEN fa ELSE rest_rep

\* the rows of the wave with a repayment dated before the first accrual month
EarlyRepayRows ==
    {j \in RepayRows(df, id, wave) :
        FGt(FirstArrearDate(df, id, wave), Num(df[j].modate))}

\* C13 (causality of allocation): a repayment row of month d is credited
\* against arrear months m <= d only: whenever the loop is about to credit a
\* positive amount, the cursor month is not later than the repayment's month,
\* and a repayment dated before the wave's first accrual month ends the wave
\* with no share (r2w blank or 0).
C13_Causality ==
    /\ (pc = "while" /\ FGt(NextCredit, Num(0))) => ~FGt(fa_date, Num(date))
    /\ pc = "wave_end" =>
           \A j \in EarlyRepayRows : IsNan(df[j].r2w) \/ df[j].r2w = Num(0)

====
